---- MODULE Spec2Model ----
(***************************************************************************)
(* The Muxer of src/lib/VideoEncoder.ts (lines 112-254): N sinks feeding   *)
(* one write queue that a single drain loop empties into the container.    *)
(* Every await of the source is a suspension point: the step that calls an *)
(* engine operation and the step that resumes after it are two actions,    *)
(* and any sink handler may run in between.                                *)
(***************************************************************************)
EXTENDS Naturals, Sequences, FiniteSets

\* ------------------------------------------------------------------ bounds
NumStreams == 2
MaxWrites == 2

Streams == 0 .. (NumStreams - 1)
Errors == {"e1", "e2"}
EngineError == "engineError"

VARIABLES
    calls,          \* the write calls that enqueued a job, in order: [idx, complete, cb]
    skipped,        \* number of write calls called back for an incomplete packet
    writingQueue,   \* Muxer.writingQueue: Seq of [idx, packet]
    writing,        \* Muxer.writing
    primed,         \* Muxer.primed
    ended,          \* Muxer.ended
    formatContext,  \* Muxer.formatContext: "undefined" or "created"
    drains,         \* the running instances of the async drain of Muxer.write
    rejected,       \* a drain ended in a rejected (unhandled) promise
    written,        \* the jobs handed to writePacketAsync, in call order
    headerCalls,    \* number of writeHeaderAsync calls
    headerDone,     \* a writeHeaderAsync call has resolved
    trailerCalls,   \* number of writeTrailerAsync calls
    closeCalls,     \* number of closeAsync calls
    finishEmitted,  \* number of 'finish' events emitted by the Muxer
    readyEmitted,   \* number of 'ready' events emitted by the Muxer
    finalPc,        \* per sink: position of its final handler
    destroyPc,      \* per sink: position of its destroy handler
    destroyErr,     \* per sink: the error its destroy handler was called with
    busy,           \* VideoEncoder.busy
    encPc,          \* VideoEncoder: position of _construct
    subs,           \* VideoEncoder: the _transform/_flush calls made, with their callbacks
    ops,            \* VideoEncoder: the engine encode/finalize calls in flight
    pushed          \* VideoEncoder: the calls whose packet was pushed, in order

vars == << calls, skipped, writingQueue, writing, primed, ended, formatContext, drains,
           rejected, written, headerCalls, headerDone, trailerCalls, closeCalls,
           finishEmitted, readyEmitted, finalPc, destroyPc, destroyErr,
           busy, encPc, subs, ops, pushed >>

engineVars == << written, headerCalls, headerDone, trailerCalls, closeCalls >>
muxerVars == << writingQueue, writing, primed, ended, formatContext, drains,
                rejected, engineVars, finishEmitted, readyEmitted >>
destroyVars == << destroyPc, destroyErr >>
encVars == << busy, encPc, subs, ops, pushed >>
allMuxerVars == << calls, skipped, muxerVars, finalPc, destroyVars >>

\* ---------------------------------------------------------------- the sinks
Destroyed(i) == destroyPc[i] # "none"
PendingWrite(i) == \E k \in 1 .. Len(calls) : calls[k].idx = i /\ calls[k].cb = "pending"

\* A Writable hands its write handler one chunk at a time, none after end or
\* destroy.
SinkCanWrite(i) ==
    /\ ~Destroyed(i)
    /\ finalPc[i] = "none"
    /\ ~PendingWrite(i)

\* A Writable calls final once, after every write has been called back.
SinkCanFinal(i) ==
    /\ ~Destroyed(i)
    /\ finalPc[i] = "none"
    /\ ~PendingWrite(i)

\* destroy() on a destroyed Writable does nothing.
SinkCanDestroy(i) == ~Destroyed(i)

Init ==
    /\ calls = << >>
    /\ skipped = 0
    /\ writingQueue = << >>
    /\ writing = FALSE
    /\ primed = FALSE
    /\ ended = 0
    /\ formatContext = "undefined"
    /\ drains = << >>
    /\ rejected = FALSE
    /\ written = << >>
    /\ headerCalls = 0
    /\ headerDone = FALSE
    /\ trailerCalls = 0
    /\ closeCalls = 0
    /\ finishEmitted = 0
    /\ readyEmitted = 0
    /\ finalPc = [i \in Streams |-> "none"]
    /\ destroyPc = [i \in Streams |-> "none"]
    /\ destroyErr = [i \in Streams |-> "none"]
    /\ busy = FALSE
    /\ encPc = "constructed"
    /\ subs = << >>
    /\ ops = << >>
    /\ pushed = << >>

\* ------------------------------------------------------------ Muxer.write
Job(idx, packet) == [idx |-> idx, packet |-> packet]
NoJob == [idx |-> NumStreams, packet |-> 0]
Drain(pc, job) == [pc |-> pc, job |-> job]

\* if (!packet.isComplete()) { callback(); return; }
\* (fault variant: the completeness test is dropped)
IsCompleteAlways(complete) == TRUE
IsComplete(complete) == complete

\* writingQueue.push(job)
\* (fault variant: unshift in place of push)
EnqueueFront(q, job) == << job >> \o q
Enqueue(q, job) == Append(q, job)
\* writingQueue.shift()
Shifted(q) == Head(q)
AfterShift(q) == Tail(q)

\* if (this.writing) return;
\* (fault variant: the writing flag is not consulted)
DrainNeverActive == FALSE
DrainActive == writing
\* if (!this.primed) await this.prime();
\* (fault variant: every drain primes)
NeedsPrimeAlways == TRUE
NeedsPrime == ~primed

RemoveAt(s, d) == [k \in 1 .. (Len(s) - 1) |-> IF k < d THEN s[k] ELSE s[k + 1]]

\* while (this.writingQueue.length > 0) { job = shift(); setStreamIndex;
\* writePacketAsync(job.packet) ... }  this.writing = false;
\* run from the loop test by drain d (0: a drain that is just starting) on
\* queue q, up to its next await or its end.
LoopFrom(d, q) ==
    IF Len(q) > 0
    THEN /\ writingQueue' = AfterShift(q)
         /\ written' = Append(written, Shifted(q))
         /\ drains' = IF d = 0
                      THEN Append(drains, Drain("writePacket", Shifted(q)))
                      ELSE [drains EXCEPT ![d] = Drain("writePacket", Shifted(q))]
         /\ writing' = TRUE
    ELSE /\ writingQueue' = q
         /\ written' = written
         /\ drains' = IF d = 0 THEN drains ELSE RemoveAt(drains, d)
         /\ writing' = FALSE

\* The awaits of prime(), in order.
PrimeOps == << "openOutput", "dump", "writeHeader", "flush" >>
PrimeOpNames == {PrimeOps[k] : k \in 1 .. Len(PrimeOps)}
PrimeIndex(pc) == CHOOSE k \in 1 .. Len(PrimeOps) : PrimeOps[k] = pc

\* prime() up to its first await: new FormatContext, one stream registered per
\* encoder, openOutputAsync called.
PrimeStart(q) ==
    /\ formatContext' = "created"
    /\ drains' = Append(drains, Drain(PrimeOps[1], NoJob))
    /\ writingQueue' = q
    /\ writing' = TRUE
    /\ written' = written

\* The write calls made so far on all sinks.
WriteCalls == Len(calls) + skipped

\* Muxer.write(idx, packet, callback); a job's packet is named by its position
\* among the accepted calls.
Write(i, complete) ==
    /\ UNCHANGED encVars
    /\ WriteCalls < MaxWrites
    /\ SinkCanWrite(i)
    /\ IF ~IsComplete(complete)
       THEN /\ skipped' = skipped + 1
            /\ UNCHANGED << calls, muxerVars, finalPc, destroyVars >>
       ELSE /\ calls' = Append(calls, [idx |-> i, complete |-> complete, cb |-> "pending"])
            /\ UNCHANGED skipped
            /\ LET q == Enqueue(writingQueue, Job(i, Len(calls) + 1)) IN
               IF DrainActive
               THEN /\ writingQueue' = q
                    /\ UNCHANGED << writing, formatContext, drains, written >>
               ELSE IF NeedsPrime
                    THEN PrimeStart(q)
                    ELSE LoopFrom(0, q) /\ UNCHANGED formatContext
            /\ UNCHANGED << primed, ended, rejected, headerCalls, headerDone,
                            trailerCalls, closeCalls, finishEmitted, readyEmitted,
                            finalPc, destroyVars >>

\* One await of prime() settles for drain d.  A rejection leaves the async
\* function of Muxer.write through its (unhandled) promise: nothing after the
\* await runs, `writing` included.  After the last await, primed is set,
\* 'ready' emitted and the loop entered in the same run of microtasks; a
\* handler running in between would see writing = TRUE exactly as before.
PrimeStep(d, ok) ==
    /\ UNCHANGED encVars
    /\ d \in 1 .. Len(drains)
    /\ drains[d].pc \in PrimeOpNames
    /\ LET pc == drains[d].pc
           next == PrimeOps[PrimeIndex(pc) + 1]
       IN  /\ headerDone' = (headerDone \/ (ok /\ pc = "writeHeader"))
           /\ IF ~ok
              THEN /\ drains' = RemoveAt(drains, d)
                   /\ rejected' = TRUE
                   /\ UNCHANGED << writingQueue, writing, primed, readyEmitted,
                                   written, headerCalls >>
              ELSE IF PrimeIndex(pc) < Len(PrimeOps)
              THEN /\ drains' = [drains EXCEPT ![d].pc = next]
                   /\ headerCalls' = IF next = "writeHeader"
                                     THEN headerCalls + 1 ELSE headerCalls
                   /\ UNCHANGED << writingQueue, writing, primed, readyEmitted,
                                   rejected, written >>
              ELSE /\ primed' = TRUE
                   /\ readyEmitted' = readyEmitted + 1
                   /\ LoopFrom(d, writingQueue)
                   /\ UNCHANGED << rejected, headerCalls >>
    /\ UNCHANGED << calls, skipped, ended, formatContext, trailerCalls, closeCalls,
                    finishEmitted, finalPc, destroyVars >>

SetCb(cs, packet, res) == [cs EXCEPT ![packet].cb = res]

\* catch (err) { job.callback(err) } inside the while loop: the error stays in
\* the iteration and drain d is back at the loop test.
\* (fault variant: the error leaves the loop and ends the drain)
Rethrown(ds, d) == RemoveAt(ds, d)
Caught(ds, d) == [ds EXCEPT ![d].pc = "callback"]

\* await writePacketAsync(job.packet) settles for drain d: job.callback() or,
\* from the catch, job.callback(err).
WritePacketDone(d, ok) ==
    /\ UNCHANGED encVars
    /\ d \in 1 .. Len(drains)
    /\ drains[d].pc = "writePacket"
    /\ calls' = SetCb(calls, drains[d].job.packet, IF ok THEN "ok" ELSE EngineError)
    /\ drains' = IF ok THEN [drains EXCEPT ![d].pc = "callback"] ELSE Caught(drains, d)
    /\ UNCHANGED << skipped, writingQueue, writing, primed, ended, formatContext, rejected,
                    engineVars, finishEmitted, readyEmitted, finalPc, destroyVars >>

\* job.callback has returned (whatever the sink did inside it): back to the
\* loop test.
DrainLoop(d) ==
    /\ UNCHANGED encVars
    /\ d \in 1 .. Len(drains)
    /\ drains[d].pc = "callback"
    /\ LoopFrom(d, writingQueue)
    /\ UNCHANGED << calls, skipped, primed, ended, formatContext, rejected, headerCalls,
                    headerDone, trailerCalls, closeCalls, finishEmitted,
                    readyEmitted, finalPc, destroyVars >>

\* ---------------------------------------------------------- final handler
\* if (this.ended === this.streams.length)
\* (fault variants: the trailer is written on the first final, or one final early)
AllEndedAny(n) == n >= 1
AllEndedButOne(n) == n >= NumStreams - 1
AllEnded(n) == n = NumStreams

\* final(callback) of sink i, up to its first await.  With no FormatContext
\* yet, this.formatContext.writeTrailerAsync() throws a TypeError.
Final(i) ==
    /\ UNCHANGED encVars
    /\ SinkCanFinal(i)
    /\ ended' = ended + 1
    /\ IF AllEnded(ended + 1)
       THEN IF formatContext = "undefined"
            THEN /\ finalPc' = [finalPc EXCEPT ![i] = "threw"]
                 /\ UNCHANGED trailerCalls
            ELSE /\ finalPc' = [finalPc EXCEPT ![i] = "writeTrailer"]
                 /\ trailerCalls' = trailerCalls + 1
       ELSE /\ finalPc' = [finalPc EXCEPT ![i] = "returned"]
            /\ UNCHANGED trailerCalls
    /\ UNCHANGED << calls, skipped, writingQueue, writing, primed, formatContext, drains,
                    rejected, written, headerCalls, headerDone, closeCalls,
                    finishEmitted, readyEmitted, destroyVars >>

\* writeTrailerAsync().then(closeAsync).then(emit 'finish').then(callback(null))
\* .catch(callback): one promise of the chain settles.
FinalStep(i, ok) ==
    /\ UNCHANGED encVars
    /\ finalPc[i] \in {"writeTrailer", "close"}
    /\ IF ~ok
       THEN /\ finalPc' = [finalPc EXCEPT ![i] = "failed"]
            /\ UNCHANGED << finishEmitted, closeCalls >>
       ELSE IF finalPc[i] = "writeTrailer"
       THEN /\ finalPc' = [finalPc EXCEPT ![i] = "close"]
            /\ closeCalls' = closeCalls + 1
            /\ UNCHANGED finishEmitted
       ELSE /\ finishEmitted' = finishEmitted + 1
            /\ finalPc' = [finalPc EXCEPT ![i] = "finished"]
            /\ UNCHANGED closeCalls
    /\ UNCHANGED << calls, skipped, writingQueue, writing, primed, ended, formatContext, drains,
                    rejected, written, headerCalls, headerDone, trailerCalls,
                    readyEmitted, destroyVars >>

\* What the final callback of sink i has received.
FinalCb(i) ==
    CASE finalPc[i] \in {"returned", "finished"} -> "null"
      [] finalPc[i] = "failed" -> EngineError
      [] OTHER -> "none"

\* -------------------------------------------------------- destroy handler
RECURSIVE SinkDestroyCall(_, _), HandlerLoop(_, _, _)
\* streams[s].destroy(error): nothing on a destroyed sink; otherwise the sink
\* is marked destroyed and its destroy handler runs, up to its closeAsync call.
\* st.D: the destroyed sinks, st.order: the handlers in the order they reach
\* line 152.
SinkDestroyCall(st, s) ==
    IF s \in st.D
    THEN st
    ELSE LET r == HandlerLoop([D |-> st.D \cup {s}, order |-> st.order], s, 0)
         IN  [D |-> r.D, order |-> Append(r.order, s)]
\* for (const s in this.streams) if (s !== idx) this.streams[s].destroy(error)
HandlerLoop(st, idx, s) ==
    IF s >= NumStreams
    THEN st
    ELSE HandlerLoop(IF s # idx THEN SinkDestroyCall(st, s) ELSE st, idx, s + 1)

\* The error handed to the siblings: this.streams[s].destroy(error)
CascadeError(error) == error

Range(s) == {s[k] : k \in 1 .. Len(s)}

\* if (error) { ... } else { callback(null) }
\* (fault variant: the cascade runs for every destroy)
HasErrorAlways(error) == TRUE
HasError(error) == error # "null"

\* destroy(error, callback) of sink i and of every sink its loop destroys, each
\* up to its await.  With no FormatContext yet, this.formatContext.closeAsync()
\* throws a TypeError.
Destroy(i, error) ==
    /\ UNCHANGED encVars
    /\ SinkCanDestroy(i)
    /\ IF ~HasError(error)
       THEN /\ destroyPc' = [destroyPc EXCEPT ![i] = "returned"]
            /\ destroyErr' = [destroyErr EXCEPT ![i] = "null"]
            /\ UNCHANGED closeCalls
       ELSE LET r == SinkDestroyCall([D |-> {s \in Streams : Destroyed(s)}, order |-> << >>], i)
                hit == Range(r.order)
            IN  /\ destroyErr' = [s \in Streams |->
                                    IF s = i THEN error
                                    ELSE IF s \in hit THEN CascadeError(error)
                                    ELSE destroyErr[s]]
                /\ IF formatContext = "undefined"
                   THEN /\ destroyPc' = [s \in Streams |->
                                           IF s \in hit THEN "threw" ELSE destroyPc[s]]
                        /\ UNCHANGED closeCalls
                   ELSE /\ destroyPc' = [s \in Streams |->
                                           IF s \in hit THEN "close" ELSE destroyPc[s]]
                        /\ closeCalls' = closeCalls + Len(r.order)
    /\ UNCHANGED << calls, skipped, writingQueue, writing, primed, ended, formatContext, drains,
                    rejected, written, headerCalls, headerDone, trailerCalls,
                    finishEmitted, readyEmitted, finalPc >>

\* this.formatContext.closeAsync().then(() => callback(error)).catch(callback)
DestroyStep(i, ok) ==
    /\ UNCHANGED encVars
    /\ destroyPc[i] = "close"
    /\ destroyPc' = [destroyPc EXCEPT ![i] = IF ok THEN "done" ELSE "failed"]
    /\ UNCHANGED << calls, skipped, muxerVars, finalPc, destroyErr >>

\* What the destroy callback of sink i has received.
DestroyCb(i) ==
    CASE destroyPc[i] = "returned" -> "null"
      [] destroyPc[i] = "done" -> destroyErr[i]
      [] destroyPc[i] = "failed" -> EngineError
      [] OTHER -> "none"

DrainIds == 1 .. MaxWrites

Next ==
    \/ \E i \in Streams, c \in BOOLEAN : Write(i, c)
    \/ \E d \in DrainIds, ok \in BOOLEAN : PrimeStep(d, ok)
    \/ \E d \in DrainIds, ok \in BOOLEAN : WritePacketDone(d, ok)
    \/ \E d \in DrainIds : DrainLoop(d)
    \/ \E i \in Streams : Final(i)
    \/ \E i \in Streams, ok \in BOOLEAN : FinalStep(i, ok)
    \/ \E i \in Streams, e \in Errors \cup {"null"} : Destroy(i, e)
    \/ \E i \in Streams, ok \in BOOLEAN : DestroyStep(i, ok)

Spec == Init /\ [][Next]_vars

\* ============================================================ VideoEncoder
\* The VideoEncoder of src/lib/VideoEncoder.ts (lines 10-85), on its own: the
\* Muxer stays as constructed.  _transform and _flush may be called at any time
\* once _construct has started (the busy test exists for callers that do not
\* wait for the callback).
MaxSubmits == 3

BusyError == "busy"
NotPrimedError == "notPrimed"
NotFrameError == "notRawVideo"
IncompleteError == "incompleteFrame"
\* What a caller can hand to _transform.
Inputs == {"valid", "notFrame", "incomplete"}

\* One call of _transform ("frame") or _flush ("flush"): cbs are the values its
\* callback was invoked with, in order; engine: the call reached the engine.
Sub(kind, input, cbs, engine) ==
    [kind |-> kind, input |-> input, cbs |-> cbs, engine |-> engine]
EngineOp(kind, call) == [kind |-> kind, call |-> call]

\* if (this.busy) return void callback(new Error(...))
\* (fault variant: the busy test is dropped)
IsBusyNever == FALSE
IsBusy == busy

\* if (!this.encoder): the constructor has assigned this.encoder (line 21).
EncoderMissing == FALSE

\* The error of the validity tests of _transform, "none" for a frame that
\* passes them.
InputError(input) ==
    IF EncoderMissing THEN NotPrimedError
    ELSE IF input = "notFrame" THEN NotFrameError
    ELSE IF input = "incomplete" THEN IncompleteError
    ELSE "none"

\* _construct up to its await: busy = true, openCodecAsync called.
Construct ==
    /\ encPc = "constructed"
    /\ busy' = TRUE
    /\ encPc' = "opening"
    /\ UNCHANGED << subs, ops, pushed, allMuxerVars >>

\* openCodecAsync settles: busy = false, callback(), 'ready'; or, rejected,
\* callback(err) from the catch with busy left as it is.
OpenDone(ok) ==
    /\ encPc = "opening"
    /\ encPc' = IF ok THEN "ready" ELSE "openFailed"
    /\ busy' = IF ok THEN FALSE ELSE busy
    /\ UNCHANGED << subs, ops, pushed, allMuxerVars >>

\* _transform(frame, encoding, callback) up to its await.  A frame that fails
\* a validity test returns from the async function after callback(err): busy
\* stays set, and the promise resolves, so .then calls callback() as well.
Transform(input) ==
    /\ Len(subs) < MaxSubmits
    /\ encPc # "constructed"
    /\ IF IsBusy
       THEN /\ subs' = Append(subs, Sub("frame", input, << BusyError >>, FALSE))
            /\ UNCHANGED << busy, ops >>
       ELSE /\ busy' = TRUE
            /\ IF InputError(input) # "none"
               THEN /\ subs' = Append(subs, Sub("frame", input,
                                                << InputError(input), "ok" >>, FALSE))
                    /\ UNCHANGED ops
               ELSE /\ subs' = Append(subs, Sub("frame", input, << >>, TRUE))
                    /\ ops' = Append(ops, EngineOp("encode", Len(subs) + 1))
    /\ UNCHANGED << encPc, pushed, allMuxerVars >>

\* _flush(callback) up to finalizeAsync(): busy is tested, not set.
Flush ==
    /\ Len(subs) < MaxSubmits
    /\ encPc # "constructed"
    /\ IF IsBusy
       THEN /\ subs' = Append(subs, Sub("flush", "none", << BusyError >>, FALSE))
            /\ UNCHANGED ops
       ELSE /\ subs' = Append(subs, Sub("flush", "none", << >>, TRUE))
            /\ ops' = Append(ops, EngineOp("finalize", Len(subs) + 1))
    /\ UNCHANGED << busy, encPc, pushed, allMuxerVars >>

AddCb(ss, call, res) == [ss EXCEPT ![call].cbs = Append(@, res)]

\* After await encodeAsync(frame): push(packet); busy = false; then callback().
BusyAfterEncode == FALSE

\* encodeAsync settles for in-flight operation k: push, busy = false,
\* callback(); or, rejected, only callback(err) from the catch.
EncodeDone(k, ok) ==
    /\ k \in 1 .. Len(ops)
    /\ ops[k].kind = "encode"
    /\ ops' = RemoveAt(ops, k)
    /\ IF ok
       THEN /\ pushed' = Append(pushed, ops[k].call)
            /\ busy' = BusyAfterEncode
            /\ subs' = AddCb(subs, ops[k].call, "ok")
       ELSE /\ subs' = AddCb(subs, ops[k].call, EngineError)
            /\ UNCHANGED << pushed, busy >>
    /\ UNCHANGED << encPc, allMuxerVars >>

\* finalizeAsync().then(push).then(callback()).catch(callback) settles.
FinalizeDone(k, ok) ==
    /\ k \in 1 .. Len(ops)
    /\ ops[k].kind = "finalize"
    /\ ops' = RemoveAt(ops, k)
    /\ IF ok
       THEN /\ pushed' = Append(pushed, ops[k].call)
            /\ subs' = AddCb(subs, ops[k].call, "ok")
       ELSE /\ subs' = AddCb(subs, ops[k].call, EngineError)
            /\ UNCHANGED pushed
    /\ UNCHANGED << busy, encPc, allMuxerVars >>

OpIds == 1 .. MaxSubmits

EncNext ==
    \/ Construct
    \/ \E ok \in BOOLEAN : OpenDone(ok)
    \/ \E input \in Inputs : Transform(input)
    \/ Flush
    \/ \E k \in OpIds, ok \in BOOLEAN : EncodeDone(k, ok)
    \/ \E k \in OpIds, ok \in BOOLEAN : FinalizeDone(k, ok)

EncSpec == Init /\ [][EncNext]_vars

\* ================================================================ claims
\* The accepted jobs, in the order their write calls were accepted.
Accepted == [k \in 1 .. Len(calls) |-> Job(calls[k].idx, k)]
PacketInFlight == \E d \in 1 .. Len(drains) : drains[d].pc = "writePacket"
PrimeInFlight == \E d \in 1 .. Len(drains) : drains[d].pc \in PrimeOpNames

\* C1: the jobs handed to writePacketAsync, followed by the jobs still queued,
\* are exactly the accepted complete packets in the order their write calls
\* were accepted, each stamped with the stream it came from: nothing is
\* reordered, lost or written twice, whichever sinks the writes came from.
C1_FifoAcrossStreams == written \o writingQueue = Accepted

\* C1 witness: two packets of different streams have been handed to the
\* container.
C1_Witness ==
    /\ Len(written) >= 2
    /\ written[1].idx # written[2].idx

\* C2: writeHeaderAsync is called at most once, only once a complete packet
\* has been accepted, and no packet is handed to the container before the
\* header write has resolved.
C2_HeaderOnceOnFirstPacket ==
    /\ headerCalls <= 1
    /\ (headerCalls >= 1 => Len(calls) >= 1)
    /\ (written # << >> => headerDone)
    /\ (primed => headerDone)

\* C2 witness: an incomplete packet and a final signal came first, then a
\* complete packet was written after the one header.
C2_Witness ==
    /\ skipped >= 1
    /\ ended >= 1
    /\ headerCalls = 1
    /\ written # << >>

\* C3: writeTrailerAsync is called at most once and only with the end-count
\* equal to the number of streams; a final signal that leaves the end-count
\* below that number only increments it and is called back with success, with
\* no trailer write, no close and no 'finish'.
C3_TrailerOnlyWhenAllEnded ==
    /\ [](/\ trailerCalls <= 1
          /\ (trailerCalls >= 1 => ended = NumStreams))
    /\ [][\A i \in Streams :
            (finalPc[i] = "none" /\ finalPc'[i] # "none" /\ ended' < NumStreams)
            => /\ ended' = ended + 1
               /\ finalPc'[i] = "returned"
               /\ trailerCalls' = trailerCalls
               /\ closeCalls' = closeCalls
               /\ finishEmitted' = finishEmitted]_vars

\* C3 witness: one sink was called back from final without a trailer, and the
\* last final started the trailer write.
C3_Witness ==
    /\ \E i \in Streams : finalPc[i] = "returned" /\ FinalCb(i) = "null"
    /\ trailerCalls = 1
    /\ ended = NumStreams

\* C4: when the trailer write starts, the write queue is empty and no packet
\* write is in flight, and no packet is handed to the container once the
\* trailer write has started (each sink signalling final only after all of its
\* writes were called back).
C4_TrailerAfterDrain ==
    /\ [][trailerCalls' > trailerCalls
            => /\ writingQueue = << >> /\ writingQueue' = << >>
               /\ ~PacketInFlight /\ ~PacketInFlight']_vars
    /\ [][trailerCalls >= 1 => written' = written]_vars

\* C4 witness: both streams wrote a packet, one sink finalized first, and the
\* trailer write started after both packets.
C4_Witness ==
    /\ trailerCalls = 1
    /\ Len(written) >= 2
    /\ written[1].idx # written[2].idx

AllFinalSignalled == \A i \in Streams : finalPc[i] # "none"
NoneDestroyed == \A i \in Streams : ~Destroyed(i)

\* C5: once every sink has signalled final and none was destroyed, the
\* trailer write has been started (it is called inside the last final
\* handler), whatever number of packets was written before; 'finish' is
\* emitted at most once and only after the trailer write and the close.
C5_FinalizationCompletes ==
    /\ ((AllFinalSignalled /\ NoneDestroyed) => trailerCalls = 1)
    /\ finishEmitted <= 1
    /\ (finishEmitted = 1 => (trailerCalls = 1 /\ closeCalls >= 1))

\* C6: at most one drain loop is running and at most one of its container
\* operations (a priming step, a packet write) is in flight, and a write that
\* arrives while the writing flag is set only appends its job to the queue.
C6_SingleDrain ==
    /\ [](/\ Len(drains) <= 1
          /\ ~(PacketInFlight /\ PrimeInFlight)
          /\ (Len(drains) = 1 => writing))
    /\ [][(Len(calls') > Len(calls) /\ writing)
            => /\ drains' = drains
               /\ writing'
               /\ written' = written
               /\ writingQueue' = Append(writingQueue,
                                         Job(calls'[Len(calls')].idx, Len(calls')))]_vars

\* C6 witness: a job is waiting in the queue while the one drain has a packet
\* write in flight.
C6_Witness ==
    /\ Len(drains) = 1
    /\ drains[1].pc = "writePacket"
    /\ writingQueue # << >>

\* C7: no incomplete packet ever becomes a job, and the write of one is called
\* back with success at once and changes nothing else: not the queue, the
\* writing and primed flags, the end-count, the drains or the container.
C7_IncompleteIsNoOp ==
    /\ [](\A k \in 1 .. Len(calls) : calls[k].complete)
    /\ [][skipped' # skipped
            => /\ skipped' = skipped + 1
               /\ UNCHANGED << calls, muxerVars, finalPc, destroyVars >>]_vars

\* C7 witness: an incomplete packet was written while the container was primed
\* and a packet write was in flight.
C7_Witness ==
    /\ skipped >= 1
    /\ primed
    /\ PacketInFlight

\* C8: when writePacketAsync rejects for a job, the error goes to that job's
\* callback and no other callback changes, the drain stays alive at its loop
\* test with the queue untouched, the loop then takes the oldest queued job,
\* and jobs never wait in the queue of a primed Muxer without a drain.
C8_WriteFailureIsLocal ==
    /\ [][\A k \in 1 .. Len(calls) :
            (calls[k].cb = "pending" /\ calls'[k].cb = EngineError)
            => /\ Len(calls') = Len(calls)
               /\ \A j \in (1 .. Len(calls)) \ {k} : calls'[j] = calls[j]
               /\ Len(drains') = Len(drains)
               /\ \E d \in 1 .. Len(drains) :
                     /\ drains[d] = Drain("writePacket", Job(calls[k].idx, k))
                     /\ drains'[d].pc = "callback"
               /\ writingQueue' = writingQueue
               /\ writing']_vars
    /\ [][\A d \in 1 .. Len(drains) :
            (drains[d].pc = "callback" /\ drains' # drains /\ writingQueue # << >>)
            => /\ written' = Append(written, Head(writingQueue))
               /\ writingQueue' = Tail(writingQueue)]_vars
    /\ []((writingQueue # << >> /\ primed) => Len(drains) >= 1)

\* C8 witness: a packet write has just failed, its job's callback holds the
\* error, and another job is queued behind it.
C8_Witness ==
    \E d \in 1 .. Len(drains) :
        /\ drains[d].pc = "callback"
        /\ calls[drains[d].job.packet].cb = EngineError
        /\ writingQueue # << >>
        /\ \A k \in 1 .. Len(calls) : k # drains[d].job.packet => calls[k].cb = "pending"

\* C9: when priming fails during the first drain, no packet has been written
\* and the priming error has been delivered to the callback of the job whose
\* write started the drain.
C9_PrimeFailureReachesCallback ==
    rejected => (written = << >> /\ calls[1].cb = EngineError)

\* C10: when a sink is destroyed with an error, every sink not yet destroyed is
\* destroyed with that same error and closeAsync is called on the container;
\* from then on no trailer write starts.
C10_ErrorDestroyCascades ==
    /\ [][\A i \in Streams :
            (destroyErr[i] = "none" /\ destroyErr'[i] \in Errors)
            => /\ \A j \in Streams : ~Destroyed(j) => destroyErr'[j] = destroyErr'[i]
               /\ closeCalls' > closeCalls]_vars
    /\ [][(\E i \in Streams : destroyErr[i] \in Errors)
            => trailerCalls' = trailerCalls]_vars

\* ------------------------------------------------- claims, VideoEncoder
EncodeInFlight == \E k \in 1 .. Len(ops) : ops[k].kind = "encode"
Submitted == Len(subs') = Len(subs) + 1
NewSub == subs'[Len(subs')]

\* C11: a frame submitted while an encode is in flight is called back with the
\* busy error only and does not reach the engine; the busy flag, the in-flight
\* operations and every earlier call are left as they were, and an encode that
\* has resolved has pushed its packet and called back once, with success.
C11_BusyRejection ==
    /\ [][(Submitted /\ NewSub.kind = "frame" /\ EncodeInFlight)
            => /\ NewSub.cbs = << BusyError >>
               /\ ~NewSub.engine
               /\ ops' = ops
               /\ busy' = busy
               /\ pushed' = pushed
               /\ \A j \in 1 .. Len(subs) : subs'[j] = subs[j]]_vars
    /\ [](\A c \in 1 .. Len(subs) :
            (subs[c].kind = "frame" /\ c \in Range(pushed)) => subs[c].cbs = << "ok" >>)
    /\ [](Cardinality({k \in 1 .. Len(ops) : ops[k].kind = "encode"}) <= 1)

\* C11 witness: a second frame was rejected as busy while the first was in
\* flight, and the first then resolved with its packet and a success callback.
C11_Witness ==
    \E c \in 1 .. Len(subs) :
        /\ subs[c].kind = "frame"
        /\ subs[c].cbs = << "ok" >>
        /\ pushed = << c >>
        /\ c < Len(subs)
        /\ subs[c + 1].kind = "frame"
        /\ subs[c + 1].input = "valid"
        /\ subs[c + 1].cbs = << BusyError >>

\* C12: at most one engine operation (codec open, encode, finalize) is in
\* flight at any time, and the busy flag is set while one is.
C12_OneEngineOpAtATime ==
    /\ Len(ops) + (IF encPc = "opening" THEN 1 ELSE 0) <= 1
    /\ ((ops # << >> \/ encPc = "opening") => busy)

\* C13: a frame rejected for an input-validity reason is called back with that
\* error and leaves the encoder as it was before the call: not busy.
C13_InvalidInputLeavesState ==
    [][(Submitted /\ NewSub.cbs # << >>
          /\ NewSub.cbs[1] \in {NotFrameError, IncompleteError})
         => /\ busy' = busy
            /\ ops' = ops
            /\ pushed' = pushed]_vars

\* C14: once an in-flight encode settles, with a packet or with an engine
\* error, the encoder is no longer busy.
C14_BusyClearedWhenEncodeSettles ==
    [][(Len(ops') < Len(ops) /\ EncodeInFlight /\ ~EncodeInFlight') => ~busy']_vars

\* C15: every frame submission, flush and sink write has its callback invoked
\* at most once, exactly once when it is not waiting on the engine, and a
\* failed one is not called back with success as well.
C15_CallbackExactlyOnce ==
    /\ \A c \in 1 .. Len(subs) :
          /\ Len(subs[c].cbs) <= 1
          /\ ((\A k \in 1 .. Len(ops) : ops[k].call # c) => Len(subs[c].cbs) = 1)
    /\ \A k \in 1 .. Len(calls) : calls[k].cb \in {"pending", "ok", EngineError}

\* C17: a frame submitted while the codec open has not completed
\* successfully (during priming, or after it failed) does not reach the engine
\* and is called back with the not-primed error.
C17_NotPrimedRejection ==
    [][(Submitted /\ NewSub.kind = "frame" /\ encPc # "ready")
         => /\ ~NewSub.engine
            /\ NewSub.cbs = << NotPrimedError >>]_vars

\* ------------------------------------------------------- claims, Muxer
\* C16: a job never waits in the queue without a running drain to take it, and
\* the writing flag is set only while a drain is running.
C16_QueuedJobsHaveADrain ==
    /\ (writingQueue # << >> => Len(drains) >= 1)
    /\ (writing => Len(drains) >= 1)

\* C18: a destroy without an error tears down that sink only: no other sink's
\* destroy handler runs, closeAsync is not called, and the queue, the flags,
\* the end-count, the drains and the callbacks are unchanged.
C18_SilentDestroyIsLocal ==
    [][\A i \in Streams :
         (destroyErr[i] = "none" /\ destroyErr'[i] = "null")
         => /\ \A j \in Streams \ {i} : destroyPc'[j] = destroyPc[j]
                                        /\ destroyErr'[j] = destroyErr[j]
            /\ destroyPc'[i] = "returned"
            /\ DestroyCb(i)' = "null"
            /\ UNCHANGED << calls, skipped, muxerVars, finalPc >>]_vars

\* C18 witness: one sink was destroyed without an error while a packet write
\* was in flight and another job was queued, and its sibling is untouched.
C18_Witness ==
    \E i \in Streams :
        /\ destroyErr[i] = "null"
        /\ \A j \in Streams \ {i} : ~Destroyed(j)
        /\ PacketInFlight
        /\ closeCalls = 0

\* C19: once closeAsync has been called on the container, no further packet
\* is handed to writePacketAsync.
C19_NoWriteAfterClose ==
    [][closeCalls >= 1 => written' = written]_vars

\* The sinks whose destroy handler has called closeAsync.
CascadeClosers == {i \in Streams : destroyPc[i] \in {"close", "done", "failed"}}

\* C20: the failure cascade calls closeAsync once in total, not once per
\* sink, and only on a container created by priming.
C20_CascadeClosesOnce ==
    /\ Cardinality(CascadeClosers) <= 1
    /\ (CascadeClosers # {} => formatContext = "created")
====
